---- MODULE Spec2Model ----
(***************************************************************************)
(* A model of the IP2Location BIN reader (src/src/lib.rs): the handle that *)
(* open() builds from the file's header, the byte decoders, get_record,    *)
(* the binary_search loop (one action per iteration) and read_record.      *)
(*                                                                         *)
(* Widths.  TLC's integers have 32 bits, so the machine integers are       *)
(* modelled with ByteBits bits per byte instead of 8, every width keeping  *)
(* its size in BYTES: u8 is 1 byte, u32 is 4, usize is 8, u128 is 16.  A   *)
(* shift by a multiple of 8 bits in the source is the shift by that many   *)
(* bytes here (ScaledBits).  Offsets, strides and counts are in bytes and  *)
(* records exactly as in the source.  A u128 does not fit TLC's integers    *)
(* even so: it is the pair [hi, lo] of its two 64-bit halves, and an IPv4  *)
(* address, compared by the same generic code, is the pair with hi = 0.    *)
(*                                                                         *)
(* Builds.  Rust's + - * on usize panic on overflow in a build with        *)
(* overflow checks (debug) and wrap without them (release); `build` is     *)
(* chosen once, in Init.  Slice indexing panics in both.                   *)
(***************************************************************************)
EXTENDS Integers, Sequences, FiniteSets, TLC

\* ---------------------------------------------------------------- widths
ByteBits == 2
Radix == 2 ^ ByteBits
U8Max == Radix - 1
U32Mod == Radix ^ 4
U32Max == U32Mod - 1
UsizeMod == Radix ^ 8
\* one half of a u128 (a u64)
HalfBits == 8 * ByteBits
HalfMod == Radix ^ 8
ScaledBits(n) == (n \div 8) * ByteBits

\* ---------------------------------------------------------------- bounds
MaxCount == 3
MaxCalls == 3

VARIABLES
    build,      \* "debug" (overflow checks) or "release" (wrapping)
    image,      \* the description the file was written from (ghost)
    file,       \* the bytes of the file on disk
    opened,     \* "closed", "open" or "failed"
    handle,     \* the IP2Location struct (db_buffer and the header fields)
    pc,         \* "idle", "search", "done" or "panicked"
    ip_str,     \* the argument of the get_record call in progress
    ipaddr,     \* the parsed address: [fam, no]
    low, high,  \* the binary_search window
    base_db_addr, offset,
    result,     \* what the call in progress returned
    touched,    \* a decoder was called during this call (ghost)
    probes,     \* the record indices get_ip_range read in this call (ghost)
    window0,    \* the window binary_search started on (ghost)
    lastiter,   \* the last iteration: [n, mid, branch, width] (ghost)
    calls,      \* the number of get_record calls that returned
    first,      \* the first call on the handle: [ip, result] (ghost)
    erred,      \* a call on the handle returned an Err (ghost)
    words,      \* four u32 words under read_ipv6 (SpecWords)
    ipv6_out    \* what read_ipv6 made of them (SpecWords)

vars == <<build, image, file, opened, handle, pc, ip_str, ipaddr, low, high,
          base_db_addr, offset, result, touched, probes, window0, lastiter,
          calls, first, erred, words, ipv6_out>>

\* ------------------------------------------------------ machine integers
\* The value of a usize expression that overflowed in a checked build.
Ovf == -1

UAdd(a, b) ==
    IF a = Ovf \/ b = Ovf THEN Ovf
    ELSE IF a + b < UsizeMod THEN a + b
    ELSE IF build = "release" THEN (a + b) % UsizeMod ELSE Ovf

USub(a, b) ==
    IF a = Ovf \/ b = Ovf THEN Ovf
    ELSE IF a >= b THEN a - b
    ELSE IF build = "release" THEN a - b + UsizeMod ELSE Ovf

UMul(a, b) ==
    IF a = Ovf \/ b = Ovf THEN Ovf
    ELSE IF a * b < UsizeMod THEN a * b
    ELSE IF build = "release" THEN (a * b) % UsizeMod ELSE Ovf

\* x << n on usize: the bits shifted out are dropped in every build.
UShl(x, n) == (x * (2 ^ n)) % UsizeMod

Shr(x, n) == x \div (2 ^ n)

\* u128 values, and the u32 addresses binary_search compares like them
Wide(hi, lo) == [hi |-> hi, lo |-> lo]
W32(x) == Wide(0, x)
U128Top == Wide(HalfMod - 1, HalfMod - 1)

WLt(a, b) == a.hi < b.hi \/ (a.hi = b.hi /\ a.lo < b.lo)
WLe(a, b) == ~WLt(b, a)

\* v << n on u128, n below the width: the bits shifted out are dropped.
WShl(v, n) ==
    IF n >= HalfBits
    THEN Wide((v.lo % (2 ^ (2 * HalfBits - n))) * (2 ^ (n - HalfBits)), 0)
    ELSE Wide((v.hi % (2 ^ (HalfBits - n))) * (2 ^ n) + v.lo \div (2 ^ (HalfBits - n)),
              (v.lo % (2 ^ (HalfBits - n))) * (2 ^ n))

\* v >> n on u128
WShr(v, n) ==
    IF n >= HalfBits
    THEN Wide(0, v.hi \div (2 ^ (n - HalfBits)))
    ELSE Wide(v.hi \div (2 ^ n),
              (v.hi % (2 ^ n)) * (2 ^ (HalfBits - n)) + v.lo \div (2 ^ n))

RECURSIVE BitOr(_, _)
BitOr(x, y) ==
    IF x = 0 THEN y
    ELSE IF y = 0 THEN x
    ELSE (IF x % 2 = 1 \/ y % 2 = 1 THEN 1 ELSE 0) + 2 * BitOr(x \div 2, y \div 2)

WOr(a, b) == Wide(BitOr(a.hi, b.hi), BitOr(a.lo, b.lo))

\* ------------------------------------------------------- decode results
Ok(v) == [tag |-> "Ok", why |-> "", val |-> v]
Panic(w) == [tag |-> "Panic", why |-> w, val |-> 0]
\* a failure of one decoder, handed on with the value type of the caller
PanicS(w) == [tag |-> "Panic", why |-> w, val |-> <<>>]
FailS(w) == [tag |-> "Err", why |-> w, val |-> <<>>]

\* ------------------------------------------------------------ ByteReader
\* &buf[from..to], the 0-based half-open slice: Rust panics when the range
\* is reversed (which a wrapped offset makes it) and when it ends past the
\* buffer.  "" is a slice taken.
SliceFault(buf, from, to) ==
    IF from > to THEN "SliceIndexOrder"
    ELSE IF to > Len(buf) THEN "OutOfBounds"
    ELSE ""

LittleEndian(bytes) ==
    bytes[1] + Radix * bytes[2] + (Radix ^ 2) * bytes[3] + (Radix ^ 3) * bytes[4]

read_u32(buf, off) ==
    LET from == USub(off, 1)
        to == UAdd(off, 3)
    IN  IF from = Ovf \/ to = Ovf THEN Panic("ArithmeticOverflow")
        ELSE IF SliceFault(buf, from, to) # "" THEN Panic(SliceFault(buf, from, to))
        ELSE Ok(LittleEndian(SubSeq(buf, from + 1, to)))

\* The f32 is kept as its four raw bytes' value: no claim reads the number.
read_f32(buf, off) == read_u32(buf, off)

\* String::from_utf8 accepts every run of bytes below 0x80, and every byte of
\* the model is one.
Utf8Valid(bytes) == \A i \in 1..Len(bytes) : bytes[i] < 128

read_string(buf, off) ==
    LET at == USub(off, 1)
    IN  IF at = Ovf THEN PanicS("ArithmeticOverflow")
        ELSE IF at >= Len(buf) THEN PanicS("OutOfBounds")
        ELSE LET string_len == buf[at + 1]
                 to == UAdd(off, string_len)
             IN  IF to = Ovf THEN PanicS("ArithmeticOverflow")
                 ELSE IF SliceFault(buf, off, to) # "" THEN PanicS(SliceFault(buf, off, to))
                 ELSE IF ~Utf8Valid(SubSeq(buf, off + 1, to)) THEN FailS("InvalidEncoding")
                 ELSE [tag |-> "Ok", why |-> "", val |-> SubSeq(buf, off + 1, to)]

read_ipv4(buf, off) == read_u32(buf, off)

\* The last line of read_ipv6 with the shifts of b and c exchanged
ComposeSwapped(a, b, c, d) ==
    IF a.tag # "Ok" THEN a
    ELSE IF b.tag # "Ok" THEN b
    ELSE IF c.tag # "Ok" THEN c
    ELSE IF d.tag # "Ok" THEN d
    ELSE Ok(WOr(WOr(WOr(WShl(W32(d.val), ScaledBits(96)),
                        WShl(W32(c.val), ScaledBits(32))),
                    WShl(W32(b.val), ScaledBits(64))),
                W32(a.val)))

\* The four `?` of read_ipv6 and its last line: the first failed read, or
\* (d << 96) | (c << 64) | (b << 32) | a.
Compose(a, b, c, d) ==
    IF a.tag # "Ok" THEN a
    ELSE IF b.tag # "Ok" THEN b
    ELSE IF c.tag # "Ok" THEN c
    ELSE IF d.tag # "Ok" THEN d
    ELSE Ok(WOr(WOr(WOr(WShl(W32(d.val), ScaledBits(96)),
                        WShl(W32(c.val), ScaledBits(64))),
                    WShl(W32(b.val), ScaledBits(32))),
                W32(a.val)))

read_ipv6(buf, off) ==
    Compose(read_u32(buf, off), read_u32(buf, UAdd(off, 4)),
            read_u32(buf, UAdd(off, 8)), read_u32(buf, UAdd(off, 12)))

\* ------------------------------------------------------- textual forms
\* An address in text is the sequence of its numerals: four octets for
\* IPv4 ("a.b.c.d"), eight groups for IPv6 ("g1:...:g8", uncompressed).
Group == Radix ^ 2

Ipv4FromU32(n) ==
    <<(n \div (Radix ^ 3)) % Radix, (n \div (Radix ^ 2)) % Radix,
      (n \div Radix) % Radix, n % Radix>>

U32FromIpv4(t) ==
    t[1] * (Radix ^ 3) + t[2] * (Radix ^ 2) + t[3] * Radix + t[4]

Ipv6FromU128(w) ==
    [i \in 1..8 |-> IF i <= 4 THEN (w.hi \div (Group ^ (4 - i))) % Group
                    ELSE (w.lo \div (Group ^ (8 - i))) % Group]

U128FromIpv6(t) ==
    Wide(t[1] * (Group ^ 3) + t[2] * (Group ^ 2) + t[3] * Group + t[4],
         t[5] * (Group ^ 3) + t[6] * (Group ^ 2) + t[7] * Group + t[8])

\* ip_str.parse::<IpAddr>()
ParseIpAddr(s) ==
    IF Len(s) = 4 /\ \A i \in 1..4 : s[i] \in 0..U8Max
        THEN [tag |-> "Ok", fam |-> "V4", no |-> W32(U32FromIpv4(s))]
    ELSE IF Len(s) = 8 /\ \A i \in 1..8 : s[i] \in 0..(Group - 1)
        THEN [tag |-> "Ok", fam |-> "V6", no |-> U128FromIpv6(s)]
    ELSE [tag |-> "Err", fam |-> "", no |-> W32(0)]

\* ------------------------------------------------------ FieldLayoutTable
\* mod positions: one row of 25 column indices per field kind, indexed by
\* the database type (0-based in the source, so row[type + 1] here).
positions(what) ==
    CASE what = "COUNTRY" ->
           <<0,2,2,2,2,2,2,2,2,2,2,2,2,2,2,2,2,2,2,2,2,2,2,2,2>>
      [] what = "REGION" ->
           <<0,0,0,3,3,3,3,3,3,3,3,3,3,3,3,3,3,3,3,3,3,3,3,3,3>>
      [] what = "CITY" ->
           <<0,0,0,4,4,4,4,4,4,4,4,4,4,4,4,4,4,4,4,4,4,4,4,4,4>>
      [] what = "ISP" ->
           <<0,0,3,0,5,0,7,5,7,0,8,0,9,0,9,0,9,0,9,7,9,0,9,7,9>>
      [] what = "LATITUDE" ->
           <<0,0,0,0,0,5,5,0,5,5,5,5,5,5,5,5,5,5,5,5,5,5,5,5,5>>
      [] what = "LONGITUDE" ->
           <<0,0,0,0,0,6,6,0,6,6,6,6,6,6,6,6,6,6,6,6,6,6,6,6,6>>
      [] what = "DOMAIN" ->
           <<0,0,0,0,0,0,0,6,8,0,9,0,10,0,10,0,10,0,10,8,10,0,10,8,10>>
      [] what = "ZIPCODE" ->
           <<0,0,0,0,0,0,0,0,0,7,7,7,7,0,7,7,7,0,7,0,7,7,7,0,7>>
      [] what = "TIMEZONE" ->
           <<0,0,0,0,0,0,0,0,0,0,0,8,8,7,8,8,8,7,8,0,8,8,8,0,8>>
      [] what = "NETSPEED" ->
           <<0,0,0,0,0,0,0,0,0,0,0,0,0,8,11,0,11,8,11,0,11,0,11,0,11>>
      [] what = "IDDCODE" ->
           <<0,0,0,0,0,0,0,0,0,0,0,0,0,0,0,9,12,0,12,0,12,9,12,0,12>>
      [] what = "AREACODE" ->
           <<0,0,0,0,0,0,0,0,0,0,0,0,0,0,0,10,13,0,13,0,13,10,13,0,13>>
      [] what = "WEATHERSTATIONCODE" ->
           <<0,0,0,0,0,0,0,0,0,0,0,0,0,0,0,0,0,9,14,0,14,0,14,0,14>>
      [] what = "WEATHERSTATIONNAME" ->
           <<0,0,0,0,0,0,0,0,0,0,0,0,0,0,0,0,0,10,15,0,15,0,15,0,15>>
      [] what = "MCC" ->
           <<0,0,0,0,0,0,0,0,0,0,0,0,0,0,0,0,0,0,0,9,16,0,16,9,16>>
      [] what = "MNC" ->
           <<0,0,0,0,0,0,0,0,0,0,0,0,0,0,0,0,0,0,0,10,17,0,17,10,17>>
      [] what = "MOBILEBRAND" ->
           <<0,0,0,0,0,0,0,0,0,0,0,0,0,0,0,0,0,0,0,11,18,0,18,11,18>>
      [] what = "ELEVATION" ->
           <<0,0,0,0,0,0,0,0,0,0,0,0,0,0,0,0,0,0,0,0,0,11,19,0,19>>
      [] what = "USAGETYPE" ->
           <<0,0,0,0,0,0,0,0,0,0,0,0,0,0,0,0,0,0,0,0,0,0,0,12,20>>

\* ---------------------------------------------------------- RecordDecoder
None == <<>>
Some(v) == <<v>>

\* IP2LocationRecord{..Default::default()}
DefaultRecord ==
    [ip |-> None, country_short |-> None, country_long |-> None,
     region |-> None, city |-> None, isp |-> None, latitude |-> None,
     longitude |-> None, domain |-> None, zipcode |-> None,
     timezone |-> None, netspeed |-> None, iddcode |-> None,
     area_code |-> None, weather_code |-> None, weather_name |-> None,
     mcc |-> None, mnc |-> None, mobile_brand |-> None, elevation |-> None,
     usage_type |-> None]

\* The `if positions::X[self.db_type] != 0` statements of read_record, in
\* the order of the source: the table row, the field each fills, how its
\* slot is decoded, and what is added to the pointer read from the slot.
FieldSteps ==
    << [what |-> "COUNTRY", field |-> "country_short", dec |-> "string", add |-> 1],
       [what |-> "COUNTRY", field |-> "country_long", dec |-> "string", add |-> 4],
       [what |-> "REGION", field |-> "region", dec |-> "string", add |-> 1],
       [what |-> "CITY", field |-> "city", dec |-> "string", add |-> 1],
       [what |-> "ISP", field |-> "isp", dec |-> "string", add |-> 1],
       [what |-> "LATITUDE", field |-> "latitude", dec |-> "f32", add |-> 0],
       [what |-> "LONGITUDE", field |-> "longitude", dec |-> "f32", add |-> 0],
       [what |-> "DOMAIN", field |-> "domain", dec |-> "string", add |-> 1],
       [what |-> "ZIPCODE", field |-> "zipcode", dec |-> "string", add |-> 1],
       [what |-> "TIMEZONE", field |-> "timezone", dec |-> "string", add |-> 1],
       [what |-> "NETSPEED", field |-> "netspeed", dec |-> "string", add |-> 1],
       [what |-> "IDDCODE", field |-> "iddcode", dec |-> "string", add |-> 1],
       [what |-> "AREACODE", field |-> "area_code", dec |-> "string", add |-> 1],
       [what |-> "WEATHERSTATIONCODE", field |-> "weather_code", dec |-> "string", add |-> 1],
       [what |-> "WEATHERSTATIONNAME", field |-> "weather_name", dec |-> "string", add |-> 1],
       [what |-> "MCC", field |-> "mcc", dec |-> "string", add |-> 1],
       [what |-> "MNC", field |-> "mnc", dec |-> "string", add |-> 1],
       [what |-> "MOBILEBRAND", field |-> "mobile_brand", dec |-> "string", add |-> 1],
       [what |-> "ELEVATION", field |-> "elevation", dec |-> "string", add |-> 1],
       [what |-> "USAGETYPE", field |-> "usage_type", dec |-> "string", add |-> 1] >>

\* positions::X[self.db_type]; a type past the rows' end is an index panic.
Position(h, what) == positions(what)[h.db_type + 1]

\* the closure calc_off of read_record
calc_off(h, base, off, what, index) ==
    UAdd(UAdd(UAdd(base, UMul(index, UAdd(UMul(h.db_column, 4), off))), off),
         UMul(4, USub(Position(h, what), 1)))

\* A string field: the pointer p read from the field's slot, then the
\* string at p + add.
StringAt(buf, p, add) ==
    IF p.tag # "Ok" THEN [tag |-> p.tag, why |-> p.why, val |-> <<>>]
    ELSE read_string(buf, UAdd(p.val, add))

F32At(r) == [tag |-> r.tag, why |-> r.why, val |-> <<r.val>>]

\* One field statement: the value it puts in the record, or its failure.
DecodeField(h, base, off, step, index) ==
    IF step.dec = "f32"
    THEN F32At(read_f32(h.db_buffer, calc_off(h, base, off, step.what, index)))
    ELSE StringAt(h.db_buffer,
                  read_u32(h.db_buffer, calc_off(h, base, off, step.what, index)),
                  step.add)

\* The record after a field statement that ran: the field set, or the
\* failure with which read_record returns.
Filled(rec, field, r) ==
    IF r.tag # "Ok" THEN [tag |-> r.tag, why |-> r.why, rec |-> rec]
    ELSE [tag |-> "Ok", why |-> "", rec |-> [rec EXCEPT ![field] = Some(r.val)]]

\* FillFields giving a field the type lacks an empty value instead of None
RECURSIVE FillFieldsZeroed(_, _, _, _, _, _)
FillFieldsZeroed(h, base, off, index, k, acc) ==
    IF k > Len(FieldSteps) \/ acc.tag # "Ok" THEN acc
    ELSE IF h.db_type >= 25 THEN [tag |-> "Panic", why |-> "IndexOutOfRange", rec |-> acc.rec]
    ELSE IF Position(h, FieldSteps[k].what) = 0
        THEN FillFieldsZeroed(h, base, off, index, k + 1,
                              [acc EXCEPT !.rec[FieldSteps[k].field] = Some(<<>>)])
    ELSE FillFieldsZeroed(h, base, off, index, k + 1,
                          Filled(acc.rec, FieldSteps[k].field,
                                 DecodeField(h, base, off, FieldSteps[k], index)))

\* The field statements from the k-th on; acc is the record so far, or the
\* failure that ended read_record.
RECURSIVE FillFields(_, _, _, _, _, _)
FillFields(h, base, off, index, k, acc) ==
    IF k > Len(FieldSteps) \/ acc.tag # "Ok" THEN acc
    ELSE IF h.db_type >= 25 THEN [tag |-> "Panic", why |-> "IndexOutOfRange", rec |-> acc.rec]
    ELSE IF Position(h, FieldSteps[k].what) = 0
        THEN FillFields(h, base, off, index, k + 1, acc)
    ELSE FillFields(h, base, off, index, k + 1,
                    Filled(acc.rec, FieldSteps[k].field,
                           DecodeField(h, base, off, FieldSteps[k], index)))

\* The address read_record decodes for the ip field.
IpFieldOffset(h, fam, index) ==
    IF fam = "V4" THEN UAdd(h.ipv4_db_addr, UMul(UMul(index, h.db_column), 4))
    ELSE UAdd(h.ipv6_db_addr, UMul(UMul(index, h.db_column), 4))

\* read_ipv4 or read_ipv6, as the family has it
read_ip(h, fam, at) ==
    IF fam = "V4" THEN read_ipv4(h.db_buffer, at) ELSE read_ipv6(h.db_buffer, at)

\* rec.ip = Some(IpvNAddr::from(raw).to_string()), or the failed read
IpField(fam, raw) ==
    IF raw.tag # "Ok" THEN [tag |-> raw.tag, why |-> raw.why, rec |-> DefaultRecord]
    ELSE [tag |-> "Ok", why |-> "",
          rec |-> [DefaultRecord EXCEPT !.ip =
                      Some(IF fam = "V4" THEN Ipv4FromU32(raw.val)
                           ELSE Ipv6FromU128(raw.val))]]

read_record(h, fam, base, off, index) ==
    FillFields(h, base, off, index, 1,
               IpField(fam, read_ip(h, fam, IpFieldOffset(h, fam, index))))

\* ------------------------------------------------------- the file on disk
\* The BIN layout the reader is written for: the 29-byte header, then the
\* out-of-line strings, the index tables and the range tables.  Positions
\* in the header are 0-based; the addresses it stores are 1-based.
HeaderLen == 29

RECURSIVE Radixes(_, _)
\* the k low bytes of n, least significant first
Radixes(n, k) == IF k = 0 THEN <<>> ELSE <<n % Radix>> \o Radixes(n \div Radix, k - 1)

U32Bytes(n) == Radixes(n, 4)
U128Bytes(w) == Radixes(w.lo, 8) \o Radixes(w.hi, 8)

RECURSIVE Flatten(_)
Flatten(ss) == IF ss = <<>> THEN <<>> ELSE Head(ss) \o Flatten(Tail(ss))

\* Two country entries (length 2, two letters, length 1, one letter of the
\* long name) and one ISP name.
Pool == <<2, 0, 1, 1, 2,   2, 1, 2, 1, 3,   1, 3>>
CountryPtr(i) == HeaderLen + 5 * (i % 2)
IspPtr == HeaderLen + 10

\* columns 2..column of record i (0-based): string pointers
Columns(img, i) ==
    Flatten([c \in 1..(img.column - 1) |->
                U32Bytes(IF c = 1 THEN CountryPtr(i) ELSE IspPtr)])

Table4(img) ==
    Flatten([i \in 1..Len(img.v4) |-> U32Bytes(img.v4[i].lo) \o Columns(img, i - 1)])

Table6(img) ==
    Flatten([i \in 1..Len(img.v6) |-> U128Bytes(img.v6[i]) \o Columns(img, i - 1)])

\* The 0-based index of the record whose range holds address a, for a table
\* of start addresses (the last one the sentinel's): 0 below the first start.
IndexOf(starts, a) ==
    LET k == Cardinality({i \in 1..Len(starts) : WLe(starts[i], a)})
    IN  IF k = 0 THEN 0 ELSE k - 1

\* The index table has one (low, high) entry per value of the address's top
\* two bytes: the records that hold the entry's first and last address.
Slots == Radix ^ 2

SlotFirst(fam, s) ==
    IF fam = "V4" THEN W32(s * (Radix ^ 2)) ELSE Wide(s * (Radix ^ 6), 0)
SlotLast(fam, s) ==
    IF fam = "V4" THEN W32(s * (Radix ^ 2) + (Radix ^ 2 - 1))
    ELSE Wide(s * (Radix ^ 6) + (Radix ^ 6 - 1), HalfMod - 1)

IndexTable(starts, fam) ==
    Flatten([k \in 1..Slots |->
                U32Bytes(IndexOf(starts, SlotFirst(fam, k - 1)))
                \o U32Bytes(IndexOf(starts, SlotLast(fam, k - 1)))])

Count(starts) == IF starts = <<>> THEN 0 ELSE Len(starts) - 1

\* 1-based addresses of the parts
FreeAddr == HeaderLen + Len(Pool) + 1
Index4Addr(img) == IF img.idx4 THEN FreeAddr ELSE 0
Table4Addr(img) ==
    IF img.v4 = <<>> THEN 0 ELSE FreeAddr + (IF img.idx4 THEN 8 * Slots ELSE 0)
After4(img) ==
    FreeAddr + (IF img.idx4 THEN 8 * Slots ELSE 0) + Len(img.v4) * img.column * 4
Index6Addr(img) == IF img.idx6 \/ img.stale6 THEN After4(img) ELSE 0
Table6Addr(img) ==
    IF img.v6 = <<>> THEN (IF img.stale6 THEN After4(img) ELSE 0)
    ELSE After4(img) + (IF img.idx6 THEN 8 * Slots ELSE 0)

Header(img) ==
    <<img.type, img.column, 1, 1, 1>>
    \o U32Bytes(Count(img.v4)) \o U32Bytes(Table4Addr(img))
    \o U32Bytes(Count(img.v6)) \o U32Bytes(Table6Addr(img))
    \o U32Bytes(Index4Addr(img)) \o U32Bytes(Index6Addr(img))

Encode(img) ==
    LET all == Header(img) \o Pool
               \o (IF img.idx4 THEN IndexTable(img.v4, "V4") ELSE <<>>)
               \o Table4(img)
               \o (IF img.idx6 THEN IndexTable(img.v6, "V6") ELSE <<>>)
               \o Table6(img)
    IN  SubSeq(all, 1, IF img.cut > Len(all) THEN 0 ELSE Len(all) - img.cut)

\* The range tables of the model: n real records from `first` on, Gap
\* apart, and the sentinel at the largest address.
Gap4 == 40
Gap6 == Wide(Radix ^ 6, 4)
FirstStart == 16
CutBytes == 6

Starts4(n, f) ==
    [i \in 1..(n + 1) |-> IF i = n + 1 THEN W32(U32Max) ELSE W32(f + (i - 1) * Gap4)]
Starts6(n, f) ==
    [i \in 1..(n + 1) |-> IF i = n + 1 THEN U128Top
                          ELSE Wide((i - 1) * Gap6.hi, f + (i - 1) * Gap6.lo)]

Image(t, v4, v6, i4, i6, st, cut) ==
    [type |-> t, column |-> t + 1, v4 |-> v4, v6 |-> v6,
     idx4 |-> i4, idx6 |-> i6, stale6 |-> st, cut |-> cut]

Images ==
    \* IPv4 only, with and without a stale IPv6 descriptor, whole and cut
    { Image(t, Starts4(n, f), <<>>, FALSE, FALSE, st, cut) :
        t \in 1..2, n \in 1..MaxCount, f \in {0, FirstStart},
        st \in BOOLEAN, cut \in {0, CutBytes} }
    \* IPv4 only with its index table
    \cup { Image(t, Starts4(n, f), <<>>, TRUE, FALSE, FALSE, 0) :
        t \in 1..2, n \in 1..MaxCount, f \in {0, FirstStart} }
    \* both families, no index
    \cup { Image(t, Starts4(n, f), Starts6(n, f), FALSE, FALSE, FALSE, 0) :
        t \in 1..2, n \in 1..MaxCount, f \in {0, FirstStart} }
    \* IPv6 only with its index table
    \cup { Image(1, <<>>, Starts6(n, f), FALSE, TRUE, FALSE, 0) :
        n \in 1..MaxCount, f \in {0, FirstStart} }
    \* a file shorter than its header
    \cup { Image(1, Starts4(1, 0), <<>>, FALSE, FALSE, FALSE, HeaderLen + Len(Pool)) }

\* The addresses asked for, as text.
Queries4 == { Ipv4FromU32(a) : a \in {0, FirstStart, FirstStart + Gap4 - 1,
                                       FirstStart + Gap4, U32Max - 1, U32Max} }
Queries6 == { Ipv6FromU128(a) : a \in {W32(0), W32(FirstStart),
                                        Wide(Gap6.hi, FirstStart + Gap6.lo - 1),
                                        Wide(Gap6.hi, FirstStart + Gap6.lo),
                                        Wide(U128Top.hi, U128Top.lo - 1), U128Top} }
Queries == Queries4 \cup Queries6 \cup { <<>> }

\* ------------------------------------------------------------ HeaderParser
CursorU32(buf, pos) == LittleEndian(SubSeq(buf, pos + 1, pos + 4))

NoHandle ==
    [db_buffer |-> <<>>, db_type |-> 0, db_column |-> 0, db_year |-> 0,
     db_month |-> 0, db_day |-> 0, ipv4_db_count |-> 0, ipv4_db_addr |-> 0,
     ipv6_db_count |-> 0, ipv6_db_addr |-> 0, ipv4_index_base_addr |-> 0,
     ipv6_index_base_addr |-> 0]

\* IP2Location::open on a buffer that holds the whole header
ParseHeader(buf) ==
    [db_buffer |-> buf, db_type |-> buf[1], db_column |-> buf[2],
     db_year |-> buf[3], db_month |-> buf[4], db_day |-> buf[5],
     ipv4_db_count |-> CursorU32(buf, 5), ipv4_db_addr |-> CursorU32(buf, 9),
     ipv6_db_count |-> CursorU32(buf, 13), ipv6_db_addr |-> CursorU32(buf, 17),
     ipv4_index_base_addr |-> CursorU32(buf, 21),
     ipv6_index_base_addr |-> CursorU32(buf, 25)]

\* ------------------------------------------------------------ RangeLocator
Result(kind, why, index, rec) == [kind |-> kind, why |-> why, index |-> index, rec |-> rec]
NoResult == Result("None", "", 0, DefaultRecord)
NoIter == [n |-> 0, mid |-> 0, branch |-> "none", width |-> 0]

\* The extra bytes of an IPv6 record: `offset` of get_record.
FamOffset(fam) == IF fam = "V4" THEN 0 ELSE 12

\* Window reading `high` from the slot's first word, where `low` is
WindowHighFromLow(h, fam, no) ==
    LET count == IF fam = "V4" THEN h.ipv4_db_count ELSE h.ipv6_db_count
        index_base == IF fam = "V4" THEN h.ipv4_index_base_addr ELSE h.ipv6_index_base_addr
        slot == IF fam = "V4" THEN Shr(no.lo, ScaledBits(16))
                ELSE WShr(no, ScaledBits(112)).lo
        indexpos == UAdd(UShl(slot, 3), index_base)
        lo == read_u32(h.db_buffer, indexpos)
    IN  IF index_base > 0
        THEN IF lo.tag # "Ok"
                THEN [tag |-> lo.tag, why |-> lo.why, low |-> 0, high |-> 0, touched |-> indexpos # Ovf]
             ELSE [tag |-> "Ok", why |-> "", low |-> lo.val, high |-> lo.val, touched |-> TRUE]
        ELSE [tag |-> "Ok", why |-> "", low |-> 0, high |-> count, touched |-> FALSE]

\* The window get_record hands to binary_search, or the failure of an index
\* read: low = 0 and high = the record count unless the family has an index.
Window(h, fam, no) ==
    LET count == IF fam = "V4" THEN h.ipv4_db_count ELSE h.ipv6_db_count
        index_base == IF fam = "V4" THEN h.ipv4_index_base_addr ELSE h.ipv6_index_base_addr
        slot == IF fam = "V4" THEN Shr(no.lo, ScaledBits(16))
                ELSE WShr(no, ScaledBits(112)).lo
        indexpos == UAdd(UShl(slot, 3), index_base)
        lo == read_u32(h.db_buffer, indexpos)
        hi == read_u32(h.db_buffer, UAdd(indexpos, 4))
    IN  IF index_base > 0
        THEN IF lo.tag # "Ok"
                THEN [tag |-> lo.tag, why |-> lo.why, low |-> 0, high |-> 0, touched |-> indexpos # Ovf]
             ELSE IF hi.tag # "Ok"
                THEN [tag |-> hi.tag, why |-> hi.why, low |-> 0, high |-> 0, touched |-> TRUE]
             ELSE [tag |-> "Ok", why |-> "", low |-> lo.val, high |-> hi.val, touched |-> TRUE]
        ELSE [tag |-> "Ok", why |-> "", low |-> 0, high |-> count, touched |-> FALSE]

\* The closure get_ip_range: the start of record mid and of record mid + 1.
\* `read` is the set of record indices it asked a decoder for.
RecordAddr(h, base, off, i) == UAdd(base, UMul(i, UAdd(UMul(h.db_column, 4), off)))

AsWide(fam, v) == IF fam = "V4" THEN W32(v) ELSE v

IpRange(fam, mid, at1, at2, ipfrom, ipto) ==
    IF ipfrom.tag # "Ok"
        THEN [tag |-> ipfrom.tag, why |-> ipfrom.why, ipfrom |-> W32(0), ipto |-> W32(0),
              read |-> IF at1 = Ovf THEN {} ELSE {mid}]
    ELSE IF ipto.tag # "Ok"
        THEN [tag |-> ipto.tag, why |-> ipto.why, ipfrom |-> W32(0), ipto |-> W32(0),
              read |-> IF at2 = Ovf THEN {mid} ELSE {mid, mid + 1}]
    ELSE [tag |-> "Ok", why |-> "", ipfrom |-> AsWide(fam, ipfrom.val),
          ipto |-> AsWide(fam, ipto.val), read |-> {mid, mid + 1}]

get_ip_range(h, fam, base, off, mid) ==
    IpRange(fam, mid,
            RecordAddr(h, base, off, mid), RecordAddr(h, base, off, UAdd(mid, 1)),
            read_ip(h, fam, RecordAddr(h, base, off, mid)),
            read_ip(h, fam, RecordAddr(h, base, off, UAdd(mid, 1))))

\* What one loop test leaves: `next` is "search" (loop again), "done"
\* (binary_search returned) or "panicked".
Left(next, lo, hi, res, read, mid, branch) ==
    [next |-> next, low |-> lo, high |-> hi, result |-> res, read |-> read,
     mid |-> mid, branch |-> branch]

Crash(why) == Result("Panic", why, 0, DefaultRecord)

\* The loop body for mid, r = get_ip_range(mid)? and, when the range
\* matches, rec = read_record(.., mid)?.
Body(no, lo, hi, mid, r, rec) ==
    IF r.tag # "Ok"
        THEN Left(IF r.tag = "Panic" THEN "panicked" ELSE "done", lo, hi,
                  Result(r.tag, r.why, 0, DefaultRecord), r.read, mid, "fault")
    ELSE IF WLe(r.ipfrom, no) /\ WLt(no, r.ipto)
        THEN Left(IF rec.tag = "Panic" THEN "panicked" ELSE "done", lo, hi,
                  IF rec.tag = "Ok" THEN Result("Record", "", mid, rec.rec)
                  ELSE Result(rec.tag, rec.why, 0, DefaultRecord),
                  r.read, mid, "match")
    ELSE IF WLt(no, r.ipfrom)
        THEN IF USub(mid, 1) = Ovf
                THEN Left("panicked", lo, hi, Crash("ArithmeticOverflow"), r.read, mid, "lower")
             ELSE Left("search", lo, USub(mid, 1), NoResult, r.read, mid, "lower")
    ELSE IF UAdd(mid, 1) = Ovf
        THEN Left("panicked", lo, hi, Crash("ArithmeticOverflow"), r.read, mid, "upper")
    ELSE Left("search", UAdd(mid, 1), hi, NoResult, r.read, mid, "upper")

\* One test of `while low <= high` and, when it passes, one run of the body.
Iterate(h, fam, no, base, off, lo, hi) ==
    IF lo > hi
        THEN Left("done", lo, hi, Result("NoRecord", "", 0, DefaultRecord), {}, 0, "exit")
    ELSE IF UAdd(lo, hi) = Ovf
        THEN Left("panicked", lo, hi, Crash("ArithmeticOverflow"), {}, 0, "fault")
    ELSE Body(no, lo, hi, UAdd(lo, hi) \div 2,
              get_ip_range(h, fam, base, off, UAdd(lo, hi) \div 2),
              read_record(h, fam, base, off, UAdd(lo, hi) \div 2))

\* binary_search run to its end: Iterate folded, for at most `fuel` loop
\* tests (a run that needs more is reported as "Diverged").
MaxIterations == 40

RECURSIVE binary_search(_, _, _, _, _, _, _, _)

Loop(h, fam, no, base, off, fuel, it) ==
    IF it.next # "search" THEN it.result
    ELSE IF fuel = 0 THEN Result("Diverged", "", 0, DefaultRecord)
    ELSE binary_search(h, fam, no, base, off, it.low, it.high, fuel - 1)

binary_search(h, fam, no, base, off, lo, hi, fuel) ==
    Loop(h, fam, no, base, off, fuel, Iterate(h, fam, no, base, off, lo, hi))

\* --------------------------------------------------------------- actions
Init ==
    /\ build \in {"debug", "release"}
    /\ image \in Images
    /\ file = Encode(image)
    /\ opened = "closed"
    /\ handle = NoHandle
    /\ pc = "idle"
    /\ ip_str = <<>>
    /\ ipaddr = [fam |-> "", no |-> W32(0)]
    /\ low = 0 /\ high = 0 /\ base_db_addr = 0 /\ offset = 0
    /\ result = NoResult
    /\ touched = FALSE
    /\ probes = {}
    /\ window0 = <<0, 0>>
    /\ lastiter = NoIter
    /\ calls = 0
    /\ first = [ip |-> <<>>, result |-> NoResult]
    /\ erred = FALSE
    /\ words = <<0, 0, 0, 0>>
    /\ ipv6_out = Ok(W32(0))

\* IP2Location::open: the cursor reads fail on a file shorter than the header.
Open ==
    /\ opened = "closed"
    /\ IF Len(file) < HeaderLen
          THEN opened' = "failed" /\ handle' = handle
          ELSE opened' = "open" /\ handle' = ParseHeader(file)
    /\ UNCHANGED <<build, image, file, pc, ip_str, ipaddr, low, high, base_db_addr,
                   offset, result, touched, probes, window0, lastiter, calls,
                   first, erred, words, ipv6_out>>

\* the test made on the table's address instead of its record count
WrongAddressFamilyByAddr(h, fam) == fam = "V6" /\ h.ipv6_db_addr = 0

\* The IPv6 branch's first test: no IPv6 ranges in this file.
WrongAddressFamily(h, fam) == fam = "V6" /\ h.ipv6_db_count = 0

\* get_record up to its call of binary_search.  It borrows the handle
\* (&self): the struct it leaves behind is the one it was given.
Lookup(s, after) ==
    LET p == ParseIpAddr(s)
        w == Window(handle, p.fam, p.no)
        fail(kind, why, t) ==
            /\ pc' = (IF kind = "Panic" THEN "panicked" ELSE "done")
            /\ result' = Result(kind, why, 0, DefaultRecord)
            /\ touched' = t
            /\ UNCHANGED <<low, high, base_db_addr, offset, window0>>
    IN  /\ opened = "open"
        /\ pc = "idle"
        /\ calls < MaxCalls
        /\ ip_str' = s
        /\ probes' = {}
        /\ lastiter' = NoIter
        /\ ipaddr' = [fam |-> p.fam, no |-> p.no]
        /\ IF p.tag = "Err" THEN fail("Err", "InvalidAddress", FALSE)
           ELSE IF WrongAddressFamily(handle, p.fam)
               THEN fail("Err", "WrongAddressFamily", FALSE)
           ELSE IF w.tag # "Ok" THEN fail(w.tag, w.why, w.touched)
           ELSE /\ pc' = "search"
                /\ result' = NoResult
                /\ touched' = w.touched
                /\ low' = w.low
                /\ high' = w.high
                /\ window0' = <<w.low, w.high>>
                /\ offset' = FamOffset(p.fam)
                /\ base_db_addr' = (IF p.fam = "V4" THEN handle.ipv4_db_addr
                                    ELSE handle.ipv6_db_addr)
        /\ handle' = after
        /\ UNCHANGED <<build, image, file, opened, calls, first, erred, words, ipv6_out>>

\* get_record keeping the window it searched as the handle's record count
GetRecordCaching(s) ==
    Lookup(s, [handle EXCEPT !.ipv4_db_count =
                   Window(handle, ParseIpAddr(s).fam, ParseIpAddr(s).no).high])

GetRecord(s) == Lookup(s, handle)

\* One iteration of the loop of binary_search, read_record included when
\* the range matches.
Iteration(it) ==
    /\ pc' = it.next
    /\ low' = it.low
    /\ high' = it.high
    /\ result' = it.result
    /\ probes' = probes \cup it.read
    /\ touched' = (touched \/ it.read # {})
    /\ lastiter' = [n |-> lastiter.n + 1, mid |-> it.mid, branch |-> it.branch,
                    width |-> high - low + 1]
    /\ UNCHANGED <<build, image, file, opened, handle, ip_str, ipaddr, base_db_addr,
                   offset, window0, calls, first, erred, words, ipv6_out>>

BinarySearchIter ==
    /\ pc = "search"
    /\ Iteration(Iterate(handle, ipaddr.fam, ipaddr.no, base_db_addr, offset, low, high))

\* get_record returns to its caller.
Return ==
    /\ pc = "done"
    /\ pc' = "idle"
    /\ calls' = calls + 1
    /\ first' = (IF calls = 0 THEN [ip |-> ip_str, result |-> result] ELSE first)
    /\ erred' = (erred \/ result.kind = "Err")
    /\ low' = 0 /\ high' = 0 /\ base_db_addr' = 0 /\ offset' = 0
    /\ window0' = <<0, 0>>
    /\ UNCHANGED <<build, image, file, opened, handle, ip_str, ipaddr, result, touched,
                   probes, lastiter, words, ipv6_out>>

Next ==
    \/ Open
    \/ \E s \in Queries : GetRecord(s)
    \/ BinarySearchIter
    \/ Return

Spec == Init /\ [][Next]_vars

\* read_ipv6 on its own: four words little-endian at `offset`, then one read.
WordSamples == {0, 1, 2, U32Max \div 3, U32Max - 1, U32Max}

InitWords ==
    /\ build \in {"debug", "release"}
    /\ image = Image(1, Starts4(1, 0), <<>>, FALSE, FALSE, FALSE, 0)
    /\ words \in WordSamples \X WordSamples \X WordSamples \X WordSamples
    /\ offset \in 1..2
    /\ file = [i \in 1..(offset - 1) |-> U8Max]
              \o U32Bytes(words[1]) \o U32Bytes(words[2])
              \o U32Bytes(words[3]) \o U32Bytes(words[4])
    /\ opened = "closed"
    /\ handle = NoHandle
    /\ pc = "idle"
    /\ ip_str = <<>>
    /\ ipaddr = [fam |-> "", no |-> W32(0)]
    /\ low = 0 /\ high = 0 /\ base_db_addr = 0
    /\ result = NoResult
    /\ touched = FALSE
    /\ probes = {}
    /\ window0 = <<0, 0>>
    /\ lastiter = NoIter
    /\ calls = 0
    /\ first = [ip |-> <<>>, result |-> NoResult]
    /\ erred = FALSE
    /\ ipv6_out = Ok(W32(0))

ReadIpv6 ==
    /\ pc = "idle"
    /\ pc' = "done"
    /\ ipv6_out' = read_ipv6(file, offset)
    /\ UNCHANGED <<build, image, file, opened, handle, ip_str, ipaddr, low, high,
                   base_db_addr, offset, result, touched, probes, window0, lastiter,
                   calls, first, erred, words>>

NextWords == ReadIpv6

SpecWords == InitWords /\ [][NextWords]_vars

\* ------------------------------------------------------------ properties
\* What the file says about the address asked for.
FamStarts == IF ipaddr.fam = "V4" THEN image.v4 ELSE image.v6
FamCount == Count(FamStarts)
FamIndexed == IF ipaddr.fam = "V4" THEN image.idx4 ELSE image.idx6
Searched == opened = "open" /\ ipaddr.fam \in {"V4", "V6"} /\ FamStarts # <<>>
Ended == pc \in {"done", "panicked"}
InCall == pc \in {"search", "done", "panicked"}
Covered ==
    /\ WLe(FamStarts[1], ipaddr.no)
    /\ WLt(ipaddr.no, FamStarts[Len(FamStarts)])
CoverIndex == IndexOf(FamStarts, ipaddr.no)
\* the index entry the file holds for the address's slot
AddrSlot ==
    IF ipaddr.fam = "V4" THEN Shr(ipaddr.no.lo, ScaledBits(16))
    ELSE WShr(ipaddr.no, ScaledBits(112)).lo
EntryLow == IndexOf(FamStarts, SlotFirst(ipaddr.fam, AddrSlot))
EntryHigh == IndexOf(FamStarts, SlotLast(ipaddr.fam, AddrSlot))
StartText(w) == IF ipaddr.fam = "V4" THEN Ipv4FromU32(w.lo) ELSE Ipv6FromU128(w)

\* C1: on the default window over a sorted table with its sentinel, the
\* search ends with the record i such that start[i] <= a < start[i+1], and
\* with "no record" when a is below start[0] or at-or-above the sentinel.
C1_RangeCoverage ==
    (Searched /\ Ended /\ ~FamIndexed /\ image.cut = 0)
        => IF Covered
              THEN result.kind = "Record" /\ result.index = CoverIndex
              ELSE result.kind = "NoRecord"

\* C2: with an index table whose entry for the address's slot holds the
\* index of the covering range, get_record returns what the search on the
\* default window low = 0, high = record_count returns.
C2_IndexEquivalence ==
    (Searched /\ Ended /\ FamIndexed /\ Covered
        /\ EntryLow <= CoverIndex /\ CoverIndex <= EntryHigh)
        => result = binary_search(handle, ipaddr.fam, ipaddr.no, base_db_addr, offset,
                                  0, FamCount, MaxIterations)

C2_Witness ==
    /\ Searched /\ pc = "done" /\ FamIndexed /\ Covered
    /\ result.kind = "Record" /\ result.index > 0
    /\ window0 # <<0, FamCount>>

\* C3: an IPv6 address on a handle with ipv6_db_count = 0 is answered with
\* WrongAddressFamily before any decoder or search step runs, and no IPv4
\* address is answered with it.
C3_WrongAddressFamily ==
    /\ (InCall /\ ipaddr.fam = "V6" /\ handle.ipv6_db_count = 0)
          => /\ pc = "done"
             /\ result.kind = "Err" /\ result.why = "WrongAddressFamily"
             /\ ~touched /\ probes = {} /\ lastiter.n = 0
    /\ result.why = "WrongAddressFamily" => ipaddr.fam = "V6"

C3_Witness ==
    /\ pc = "done" /\ ipaddr.fam = "V6"
    /\ handle.ipv6_db_count = 0 /\ handle.ipv6_db_addr > 0
    /\ handle.ipv6_index_base_addr > 0
    /\ result.why = "WrongAddressFamily"

\* C4: a lookup in which a decode reads past the end of the buffer returns
\* an error value to the caller of get_record; it does not crash.
C4_OutOfBoundsIsAnError ==
    result.why = "OutOfBounds" => (pc # "panicked" /\ result.kind = "Err")

\* C5: get_record leaves the buffer and the header fields as open made
\* them, whatever it returned, and a later call for the address of the
\* first call on the handle returns what that first call returned.
C5_HandleUnchanged ==
    /\ opened = "open" => handle = ParseHeader(Encode(image))
    /\ (pc = "done" /\ calls > 0 /\ ip_str = first.ip) => result = first.result

C5_Witness ==
    /\ pc = "done" /\ calls = 2 /\ erred
    /\ ip_str = first.ip /\ first.result.kind = "Record"
    /\ result = first.result

\* C6: in every record returned, a field is populated iff the layout table's
\* entry of its kind for the handle's type is nonzero; a kind whose entry
\* is 0 is None.
C6_FieldPresence ==
    result.kind = "Record"
        => /\ result.rec.ip # None
           /\ \A k \in 1..Len(FieldSteps) :
                 (result.rec[FieldSteps[k].field] # None)
                    <=> (positions(FieldSteps[k].what)[handle.db_type + 1] # 0)

C6_Witness ==
    /\ result.kind = "Record" /\ result.index > 0
    /\ handle.db_type = 2
    /\ result.rec.isp # None /\ result.rec.region = None

\* C7: read_ipv6 over the words a, b, c, d at offset, +4, +8, +12 is
\* d*2^96 + c*2^64 + b*2^32 + a: the high half is d*2^32 + c and the low
\* half is b*2^32 + a.
C7_Ipv6Composition ==
    pc = "done"
        => ipv6_out = Ok(Wide(words[4] * U32Mod + words[3],
                              words[2] * U32Mod + words[1]))

C7_Witness ==
    /\ pc = "done"
    /\ words = <<0, 0, 0, 1>>
    /\ ipv6_out.val = Wide(U32Mod, 0)

\* C8: the ip field of a returned record is the text of the start address
\* that binary_search read for the matched record.
C8_IpFieldIsRangeStart ==
    result.kind = "Record"
        => result.rec.ip =
              Some(StartText(get_ip_range(handle, ipaddr.fam, base_db_addr, offset,
                                          result.index).ipfrom))

\* C9: in binary_search, mid - 1 is computed only with mid >= 1, low stays
\* at most the starting high + 1, high at most the starting high, and the
\* width high - low + 1 is smaller at each loop test than at the one before.
C9_BoundsStayValid ==
    (InCall /\ lastiter.n > 0)
        => /\ lastiter.branch = "lower" => lastiter.mid >= 1
           /\ low <= window0[2] + 1
           /\ high <= window0[2]
           /\ pc = "search" => high - low + 1 < lastiter.width

\* C10: on the default window, every record get_ip_range reads has an
\* index in 0..record_count.
C10_ProbesWithinTable ==
    (Searched /\ InCall /\ ~FamIndexed) => probes \subseteq 0..FamCount

====
